---- MODULE Spec2Model ----
(***************************************************************************)
(* Order lifecycle and payment confirmation of the storefront API:        *)
(* checkout initiation (ShoppingController.createCheckoutSession),         *)
(* the payment-provider callback (ShoppingController.handleStripeWebhook), *)
(* the administrative order routes behind the admin router's guards       *)
(* (OrderController, authenticateToken, authorizeRole), logout, and the    *)
(* owner-scoped fetch and listing (ShoppingController.getOrderById,        *)
(* getOrders), over the orders container of the document store (partition *)
(* key /userId).                                                           *)
(*                                                                         *)
(* A handler runs from one awaited call to the next; every awaited store   *)
(* or gateway call is one step and may fail.  Under Spec one request is    *)
(* handled at a time.                                                      *)
(***************************************************************************)
EXTENDS Integers, Sequences, FiniteSets, TLC

\* ---------------------------------------------------------------- bounds
\* Number of requests the server handles in a run.
MaxRequests == 3
\* Last instant of the clock (Date.now() / new Date()).
MaxTime == 2

\* ------------------------------------------------------------- constants
Users == {"u1", "u2"}
\* Ids the id generator hands out: a request creates at most one order.
\* Most orders in a store that listings are read from.
MaxOrders == 3
OrderIds == 1..MaxRequests
\* client_reference_id values a callback can carry: 0 is "absent"; the id
\* MaxRequests is not a stored order's while another request can still come.
RefIds == 0..MaxRequests
\* A list of accepted statuses that had "shipped" in it as well.
validStatusesLoose ==
    {"pending", "confirmed", "processing", "out_for_delivery", "delivered", "cancelled",
     "shipped"}
validStatuses ==
    {"pending", "confirmed", "processing", "out_for_delivery", "delivered", "cancelled"}
\* The statuses of an order's lifecycle.
LifecycleStatuses ==
    {"pending", "confirmed", "processing", "out_for_delivery", "delivered", "cancelled"}
\* What an administrator may send as the new status: enumerated ones, from
\* either end of the lifecycle, and one that is not enumerated.
StatusInputs == {"pending", "confirmed", "processing", "cancelled", "shipped"}

ItemA == [name |-> "tea", price |-> 1999, quantity |-> 1]
ItemB == [name |-> "cup", price |-> 1500, quantity |-> 2]
\* req.body.cartItems: an empty cart, a cart of two lines.
Carts == {<<>>, <<ItemA, ItemB>>}
NoAddress == [street |-> "", city |-> "", country |-> "", present |-> FALSE]
BadAddress == [street |-> "1 High St", city |-> "", country |-> "UK", present |-> TRUE]
GoodAddress == [street |-> "1 High St", city |-> "Leeds", country |-> "UK", present |-> TRUE]
\* req.body.address: missing, present but without a city, complete.
Addresses == {NoAddress, BadAddress, GoodAddress}
\* req.body.customerEmail: missing ("" stands for undefined) or given.
Emails == {"", "a@shop.io"}
Totals == {4999}
\* Numbers a request body may carry as well: a line with quantity 0 and a
\* negative price, a negative total.
ItemZero == [name |-> "tea", price |-> -1999, quantity |-> 0]
AnyCarts == {<<>>, <<ItemA, ItemB>>, <<ItemZero>>}
AnyTotals == {4999, -1}
Metas == {[order_ref |-> "ORD-1"]}

\* process.env.STRIPE_WEBHOOK_SECRET, and a secret that is not it.
WebhookSecret == "whsec_live"
OtherSecret == "whsec_guess"
Completed == "checkout.session.completed"
\* Event types the provider sends: the completion event and another one.
Expired == "checkout.session.expired"
EventTypes == {Completed, Expired}
ContentTypes == {"application/json", "text/plain"}

\* ------------------------------------------------------------- documents
\* An order document of the orders container.  stripeSessionId 0 is null.
NoDoc ==
    [id |-> 0, userId |-> "", items |-> <<>>, address |-> NoAddress, status |-> "",
     total |-> 0, stripeSessionId |-> 0, customerEmail |-> "",
     metadata |-> [order_ref |-> ""], createdAt |-> 0, updatedAt |-> 0]

\* new Order(data): every field falls back to its default when falsy; the
\* id and the two timestamps are supplied by the caller of the constructor
\* (generateId(), new Date()) when the data has none.
Order(data, newId, t) ==
    [id |-> IF data.id # 0 THEN data.id ELSE newId,
     userId |-> data.userId,
     items |-> data.items,
     address |-> IF data.address.present THEN data.address ELSE NoAddress,
     status |-> IF data.status # "" THEN data.status ELSE "pending",
     total |-> data.total,
     stripeSessionId |-> data.stripeSessionId,
     customerEmail |-> data.customerEmail,
     metadata |-> data.metadata,
     createdAt |-> IF data.createdAt # 0 THEN data.createdAt ELSE t,
     updatedAt |-> IF data.updatedAt # 0 THEN data.updatedAt ELSE t]

\* Order.validate(): the list of violated constraints, in the code's order.
validate(o) ==
    (IF o.userId = "" THEN <<"User ID is required">> ELSE <<>>)
    \o (IF Len(o.items) = 0 THEN <<"At least one item is required">> ELSE <<>>)
    \o (IF ~o.address.present \/ o.address.street = "" \/ o.address.city = ""
           \/ o.address.country = ""
        THEN <<"Valid address is required">> ELSE <<>>)
    \o (IF o.customerEmail = "" THEN <<"Customer email is required">> ELSE <<>>)

\* Order.toDocument(): the plain document of an Order, field by field.
toDocument(o) ==
    [id |-> o.id, userId |-> o.userId, items |-> o.items, address |-> o.address,
     status |-> o.status, total |-> o.total, stripeSessionId |-> o.stripeSessionId,
     customerEmail |-> o.customerEmail, metadata |-> o.metadata,
     createdAt |-> o.createdAt, updatedAt |-> o.updatedAt]

\* Order.fromDocument(doc): new Order over the document's fields; a stored
\* document has an id and both timestamps, so nothing is generated.
fromDocument(doc) == Order(doc, doc.id, doc.createdAt)

\* ----------------------------------------------------------------- state
VARIABLES
    store,            \* the orders container: a set of order documents
    gateway,          \* checkout sessions the payment provider has created
    now,              \* the clock
    cur,              \* the request being handled: its position and its locals
    prev,             \* the order the request before cur confirmed (0: none)
    nreq,             \* number of requests taken so far
    blacklistedTokens, \* the tokens that were logged out
    other,            \* a second request in flight, waiting at an await
    otpCodes,         \* the otp_codes container: a set of OTP documents
    emailVerified,    \* the e-mail addresses of the users marked verified
    otpUses           \* per OTP document id, the verifications it let succeed

vars == <<store, gateway, now, cur, prev, nreq, blacklistedTokens,
         other, otpCodes, emailVerified, otpUses>>

\* What the order handlers leave alone: the request waiting and everything
\* of e-mail verification.
verification == <<otpCodes, emailVerified, otpUses>>
beside == <<other, otpCodes, emailVerified, otpUses>>

\* A request record.  op/pc give the handler and its position ("idle" before
\* the first request, "done" once the response is sent); the rest are the
\* handler's locals and what it did: code is the response status, reads and
\* writes count the store calls it made.  For a callback, preParsed tells
\* that a middleware ahead of the users router had read the body, rawBody
\* that req.body reached the handler as the raw bytes, sigMatches that the
\* signature header is the provider's signature of the bytes sent, verified
\* that constructEvent returned an event, otherType that the provider signed
\* an event of a type other than the completion of a checkout session.
\* violated is the set of input fields that break a constraint, named the
\* set of fields that the response tells the caller about.  For a request
\* to the admin router, entitled tells that its token is a valid one, not
\* logged out, of an active administrator, and token is the token it
\* presented.
Idle ==
    [userId |-> "", items |-> <<>>, op |-> "none", pc |-> "idle", via |-> "",
     ref |-> 0, newStatus |-> "", retryOf |-> 0, order |-> NoDoc, session |-> 0,
     preParsed |-> FALSE, rawBody |-> FALSE, sigMatches |-> FALSE, verified |-> FALSE,
     applied |-> FALSE, otherType |-> FALSE,
     violated |-> {}, named |-> {}, entitled |-> FALSE, outcome |-> "", code |-> 0, reads |-> 0, writes |-> 0,
     query |-> [status |-> "", search |-> "", page |-> 0, limit |-> 0], listed |-> <<>>,
     email |-> "", otp |-> "", otpRecord |-> 0,
     token |-> [sub |-> "", key |-> "", expired |-> FALSE]]

\* The id of the order that request r marked confirmed, 0 when it did not.
Summary(r) == IF r.op = "webhook" /\ r.applied THEN r.ref ELSE 0

\* The fields of a checkout request that break a constraint of an order: no
\* owner, no items, an address that is missing or lacks street, city or
\* country, no customer email.
Lacking(userId, cartItems, address, customerEmail) ==
    (IF userId = "" THEN {"userId"} ELSE {})
    \cup (IF Len(cartItems) = 0 THEN {"items"} ELSE {})
    \cup (IF ~address.present \/ address.street = "" \/ address.city = "" \/ address.country = ""
          THEN {"address"} ELSE {})
    \cup (IF customerEmail = "" THEN {"customerEmail"} ELSE {})

\* A new request may be taken when none is being handled.
CanStart == cur.pc \in {"idle", "done"} /\ nreq < MaxRequests

\* ------------------------------------------------------- the order store
\* containers.orders.item(id, partitionKey).read(): the documents (none or
\* one) with that id in that partition.
ItemAt(S, id, pk) == {d \in S : d.id = id /\ d.userId = pk}

\* SELECT * FROM c WHERE c.id = @id, over every partition.
QueryById(S, id) == {d \in S : d.id = id}

\* containers.orders.items.create(doc) succeeds when the partition holds no
\* document with that id.
CanCreate(S, doc) == ItemAt(S, doc.id, doc.userId) = {}
Create(S, doc) == S \cup {doc}

\* containers.orders.item(id, partitionKey).replace(doc) succeeds when the
\* partition holds a document with that id, and puts doc in its place.
CanReplace(S, id, pk) == ItemAt(S, id, pk) # {}
Replace(S, id, pk, doc) == (S \ ItemAt(S, id, pk)) \cup {doc}

\* Order.generateId(): `order_${Date.now()}_${random}`, an id no stored order
\* has; the least free one stands for it.
FreeIds(S) == {i \in OrderIds : QueryById(S, i) = {}}
generateId(S) == CHOOSE i \in FreeIds(S) : \A j \in FreeIds(S) : i <= j

\* An owner-scoped fetch that looked the id up in every partition.
getOrderByIdAnyOwner(S, userId, orderId) ==
    IF QueryById(S, orderId) = {}
    THEN [order |-> NoDoc, code |-> 404]
    ELSE [order |-> fromDocument(CHOOSE d \in QueryById(S, orderId) : TRUE), code |-> 200]

\* ShoppingController.getOrderById: the owner-scoped fetch, a point read in
\* the caller's partition; 404 when it finds nothing.
getOrderById(S, userId, orderId) ==
    IF ItemAt(S, orderId, userId) = {}
    THEN [order |-> NoDoc, code |-> 404]
    ELSE [order |-> fromDocument(CHOOSE d \in ItemAt(S, orderId, userId) : TRUE),
          code |-> 200]

\* The characters of the strings that are searched and searched for, in
\* lower case: CONTAINS(..., true) ignores case.
LowerChars(str) ==
    CASE str = "ORD-1" -> <<"o", "r", "d", "-", "1">>
      [] str = "ord" -> <<"o", "r", "d">>
      [] str = "D-2" -> <<"d", "-", "2">>
      [] str = "a@shop.io" -> <<"a", "@", "s", "h", "o", "p", ".", "i", "o">>
      [] OTHER -> <<>>
\* CONTAINS(text, part, true): part occurs in text, whatever the case.
Contains(text, part) ==
    \E i \in 0..(Len(LowerChars(text)) - Len(LowerChars(part))) :
       SubSeq(LowerChars(text), i + 1, i + Len(LowerChars(part))) = LowerChars(part)

\* req.query of a listing: status and search ("" when absent), page, limit.
ListQuery(status, search, page, limit) ==
    [status |-> status, search |-> search, page |-> page, limit |-> limit]
ListQueries ==
    {ListQuery(st, se, pl[1], pl[2]) : st \in {"", "pending"}, se \in {"", "ord"},
                                       pl \in {<<1, 2>>, <<2, 1>>}}

\* The documents the listing's WHERE clause selects: those of the caller,
\* with the status asked for if any, whose order_ref contains the search
\* text if any.
Selected(S, userId, q) ==
    {d \in S : /\ d.userId = userId
               /\ (q.status # "" => d.status = q.status)
               /\ (q.search # "" => Contains(d.metadata.order_ref, q.search))}

\* ORDER BY c.createdAt DESC: the orders a set of documents may be returned
\* in, newest first; documents created at the same instant in either order.
RECURSIVE NewestFirst(_)
NewestFirst(D) ==
    IF D = {} THEN {<<>>}
    ELSE UNION {{<<d>> \o rest : rest \in NewestFirst(D \ {d})} :
                d \in {x \in D : \A y \in D : x.createdAt >= y.createdAt}}

\* A LIMIT that returned one row more than asked for.
PageInclusive(rows, offset, limit) ==
    SubSeq(rows, offset + 1,
           IF offset + limit + 1 <= Len(rows) THEN offset + limit + 1 ELSE Len(rows))

\* OFFSET @offset LIMIT @limit over a result.
Page(rows, offset, limit) ==
    SubSeq(rows, offset + 1, IF offset + limit <= Len(rows) THEN offset + limit ELSE Len(rows))

\* ShoppingController.getOrders: the responses the listing may give, one
\* for each order the store may return equal createdAt in.
getOrders(S, userId, q) ==
    {LET resources == Page(rows, (q.page - 1) * q.limit, q.limit)
     IN  [total |-> Len(resources), code |-> 200, page |-> q.page, limit |-> q.limit,
          orders |-> [i \in 1..Len(resources) |-> fromDocument(resources[i])]]
     : rows \in NewestFirst(Selected(S, userId, q))}

\* The documents the admin listing's WHERE clause selects: every owner's,
\* with the status asked for if any, whose customerEmail or order_ref
\* contains the search text if any.
SelectedAll(S, q) ==
    {d \in S : /\ (q.status # "" => d.status = q.status)
               /\ (q.search # "" => \/ Contains(d.customerEmail, q.search)
                                    \/ Contains(d.metadata.order_ref, q.search))}

\* OrderController.getAllOrders: the responses the admin listing may give.
listAllOrders(S, q) ==
    {LET resources == Page(rows, (q.page - 1) * q.limit, q.limit)
     IN  [total |-> Len(resources), code |-> 200, page |-> q.page, limit |-> q.limit,
          orders |-> [i \in 1..Len(resources) |-> fromDocument(resources[i])]]
     : rows \in NewestFirst(SelectedAll(S, q))}

\* ------------------------------------------------ checkout initiation
\* A controller that handed createOrder the status of a paid order.
OrderDataPaid(userId, cartItems, address, total, customerEmail, metadata) ==
    [id |-> 0, userId |-> userId, items |-> cartItems, address |-> address,
     status |-> "confirmed", total |-> total, stripeSessionId |-> 0,
     customerEmail |-> customerEmail, metadata |-> metadata,
     createdAt |-> 0, updatedAt |-> 0]

\* The orderData createCheckoutSession hands to userService.createOrder.
OrderData(userId, cartItems, address, total, customerEmail, metadata) ==
    [id |-> 0, userId |-> userId, items |-> cartItems, address |-> address,
     status |-> "pending", total |-> total, stripeSessionId |-> 0,
     customerEmail |-> customerEmail, metadata |-> metadata,
     createdAt |-> 0, updatedAt |-> 0]

\* A step 3 that wrote the order back without the session id.
WithoutSession(o, sessionId, t) == [toDocument(o) EXCEPT !.updatedAt = t]

\* The document of step 3: the order with the session id attached.
WithSession(o, sessionId, t) ==
    [toDocument(o) EXCEPT !.stripeSessionId = sessionId, !.updatedAt = t]

\* A catch block that rolled the order back out of the store.
AfterCheckoutErrorRollback(S, o) == S \ {d \in S : d.id = o.id /\ d.userId = o.userId}

\* The catch block of createCheckoutSession: it logs and answers 500; the
\* store is left as it is.
AfterCheckoutError(S, o) == S

\* The response is sent and the handler returns: the request's inputs and
\* the handler's local order are gone.
Respond(r, code, outcome) ==
    [r EXCEPT !.pc = "done", !.code = code, !.outcome = outcome,
              !.order = NoDoc, !.items = <<>>, !.newStatus = ""]

\* The order a checkout of this cart by this user is a retry for: one of the
\* user's stored orders with these items that is still without a session (the
\* checkout that created it failed), 0 when there is none.
RetryOf(S, userId, cartItems) ==
    LET open == {d \in S : d.userId = userId /\ d.items = cartItems /\ d.stripeSessionId = 0}
    IN  IF open = {} THEN 0 ELSE (CHOOSE d \in open : \A e \in open : d.id <= e.id).id

\* POST /checkout up to the end of userService.createOrder: the two checks of
\* the controller, new Order + validate(), and the one write to the store.
checkoutFrom(carts, totals, ids) ==
    /\ CanStart
    /\ nreq' = nreq + 1
    /\ \E userId \in Users, cartItems \in carts, address \in Addresses,
          customerEmail \in Emails, total \in totals, metadata \in Metas, newId \in ids :
         LET r0 == [Idle EXCEPT !.op = "checkout", !.userId = userId, !.items = cartItems,
                                !.violated = Lacking(userId, cartItems, address, customerEmail),
                                !.retryOf = RetryOf(store, userId, cartItems)]
             order == Order(OrderData(userId, cartItems, address, total,
                                      customerEmail, metadata),
                            newId, now)
         IN  /\ prev' = Summary(cur)
             /\ IF Len(cartItems) = 0
                THEN /\ cur' = Respond([r0 EXCEPT !.named = {"items"}], 400, "rejected")
                     /\ store' = store
                ELSE IF ~address.present
                THEN /\ cur' = Respond([r0 EXCEPT !.named = {"address"}], 400, "rejected")
                     /\ store' = store
                ELSE IF validate(order) # <<>>
                THEN /\ cur' = Respond(r0, 500, "invalid")
                     /\ store' = AfterCheckoutError(store, order)
                ELSE \E storeOk \in BOOLEAN :
                       IF storeOk /\ CanCreate(store, toDocument(order))
                       THEN /\ store' = Create(store, toDocument(order))
                            /\ cur' = [r0 EXCEPT !.pc = "gateway", !.writes = 1,
                                                 !.ref = order.id,
                                                 !.order = fromDocument(toDocument(order))]
                       ELSE /\ cur' = Respond(r0, 500, "storeError")
                            /\ store' = AfterCheckoutError(store, order)
    /\ UNCHANGED <<gateway, now, blacklistedTokens, beside>>

\* POST /checkout with a cart and a total a storefront sends.
createCheckoutSession_createOrder == checkoutFrom(Carts, Totals, {generateId(store)})

\* POST /checkout with whatever numbers the body carries.
createCheckoutSession_anyNumbers == checkoutFrom(AnyCarts, AnyTotals, {generateId(store)})

\* POST /checkout when Order.generateId() may return any id, one in use too:
\* the id is a timestamp and a random suffix, nothing looks it up.
createCheckoutSession_anyId == checkoutFrom(Carts, Totals, OrderIds)

\* The id of a new checkout session: one the provider has not used.
newSessionId(G) == 101 + Cardinality(G)

\* A session created without the order's id as its reference.
sessionsCreateUncorrelated(G, sid, order) ==
    G \cup {[id |-> sid, client_reference_id |-> 0]}

\* The session the provider keeps: its id and the client_reference_id it was
\* created with, order.id.
sessionsCreate(G, sid, order) ==
    G \cup {[id |-> sid, client_reference_id |-> order.id]}

\* stripe.checkout.sessions.create, with client_reference_id = order.id: the
\* provider creates a session and returns its id, or the call fails.
createCheckoutSession_gateway ==
    /\ cur.pc = "gateway"
    /\ \E gatewayOk \in BOOLEAN :
         IF gatewayOk
         THEN LET sid == newSessionId(gateway)
              IN  /\ gateway' = sessionsCreate(gateway, sid, cur.order)
                  /\ cur' = [cur EXCEPT !.pc = "attach", !.session = sid]
                  /\ store' = store
         ELSE /\ cur' = Respond(cur, 500, "gatewayError")
              /\ store' = AfterCheckoutError(store, cur.order)
              /\ gateway' = gateway
    /\ UNCHANGED <<now, prev, nreq, blacklistedTokens, beside>>

\* Step 3 and 4: replace the order by the document with the session id, in
\* the owner's partition, and answer 200 with the redirect URL.
createCheckoutSession_replace ==
    /\ cur.pc = "attach"
    /\ \E storeOk \in BOOLEAN :
         IF storeOk /\ CanReplace(store, cur.order.id, cur.userId)
         THEN /\ store' = Replace(store, cur.order.id, cur.userId,
                                  WithSession(cur.order, cur.session, now))
              /\ cur' = Respond([cur EXCEPT !.writes = @ + 1], 200, "redirect")
         ELSE /\ cur' = Respond(cur, 500, "storeError")
              /\ store' = AfterCheckoutError(store, cur.order)
    /\ UNCHANGED <<gateway, now, prev, nreq, blacklistedTokens, beside>>

\* ------------------------------------------- the provider's callback
\* The bytes of a callback body: the JSON text of an event, kept as the pair
\* of what it encodes (its type, its data.object.client_reference_id).
Payloads == {<<Completed, ref>> : ref \in RefIds} \cup {<<Expired, 1>>}
NoEvent == [client_reference_id |-> 0, type |-> ""]
JsonParse(bytes) == [client_reference_id |-> bytes[2], type |-> bytes[1]]

\* The stripe-signature header: a signature made with a secret over some
\* bytes, or something that is no signature at all.
Sign(secret, bytes) == [secret |-> secret, over |-> bytes]
Malformed == [secret |-> "", over |-> <<>>]
\* Headers a callback with these bytes may carry: the provider's signature
\* of them, its signature of other bytes (the body was changed afterwards),
\* a signature made without the secret, a malformed header.
SigHeaders(bytes) ==
    {Sign(WebhookSecret, bytes), Sign(WebhookSecret, <<bytes[1], (bytes[2] + 1) % (MaxRequests + 1)>>),
     Sign(OtherSecret, bytes), Malformed}

\* req.body as the middlewares leave it: nothing yet, a Buffer of the raw
\* bytes, or the object a JSON parser made of them.
EmptyBody == [bytes |-> <<>>, kind |-> "empty", value |-> NoEvent]
BufferBody(bytes) == [bytes |-> bytes, kind |-> "buffer", value |-> NoEvent]
ObjectBody(v) == [bytes |-> <<>>, kind |-> "object", value |-> v]

\* The request as it enters the middleware chain: body unread, req._body unset.
Incoming(t) ==
    [bytes |-> t.bytes, contentType |-> t.contentType, body |-> EmptyBody, parsed |-> FALSE]

\* express.json(): skips a request whose body was already read (req._body)
\* or whose content type is not JSON; otherwise reads the body and leaves
\* the parsed object in req.body.
expressJson(req) ==
    IF req.parsed \/ req.contentType # "application/json" THEN req
    ELSE [req EXCEPT !.body = ObjectBody(JsonParse(req.bytes)), !.parsed = TRUE]

\* express.urlencoded(): the same for form-encoded bodies.
expressUrlencoded(req) ==
    IF req.parsed \/ req.contentType # "application/x-www-form-urlencoded" THEN req
    ELSE [req EXCEPT !.body = ObjectBody(NoEvent), !.parsed = TRUE]

\* bodyParser.raw({ type: 'application/json' }): skips a request whose body
\* was already read or whose content type does not match; otherwise leaves
\* the raw bytes in req.body as a Buffer.
bodyParserRaw(req) ==
    IF req.parsed \/ req.contentType # "application/json" THEN req
    ELSE [req EXCEPT !.body = BufferBody(req.bytes), !.parsed = TRUE]

\* The middlewares of the users router ahead of handleStripeWebhook.
routerChain(req) == bodyParserRaw(req)

\* The body parsers that server.js installs before the routes.
appParsers(req) == expressUrlencoded(expressJson(req))

\* The middlewares ahead of handleStripeWebhook in the application: those
\* of server.js, then those of the users router.
appChain(req) == routerChain(appParsers(req))

\* A verification that parsed every raw body without comparing signatures.
constructEventUnchecked(body, sig, secret) ==
    IF body.kind = "buffer"
    THEN [ok |-> TRUE, event |-> JsonParse(body.bytes)]
    ELSE [ok |-> FALSE, event |-> [client_reference_id |-> 0, type |-> ""]]

\* stripe.webhooks.constructEvent(body, sig, secret): succeeds when body is
\* the raw payload and sig is the signature of exactly those bytes under
\* secret, and then returns the parsed event; throws otherwise.
constructEvent(body, sig, secret) ==
    IF body.kind = "buffer" /\ sig = Sign(secret, body.bytes)
    THEN [ok |-> TRUE, event |-> JsonParse(body.bytes)]
    ELSE [ok |-> FALSE, event |-> NoEvent]

\* A handler that moved the order one status further on each completion
\* event, instead of setting it to confirmed.
MarkAdvanced(orderDoc, t) ==
    [orderDoc EXCEPT !.status = IF @ = "pending" THEN "confirmed" ELSE "processing",
                     !.updatedAt = t]

\* A handler that refreshed updatedAt and left the status alone.
MarkTouched(orderDoc, t) == [orderDoc EXCEPT !.updatedAt = t]

\* A handler that wrote the order back without its metadata.
MarkConfirmedBare(orderDoc, t) ==
    [orderDoc EXCEPT !.status = "confirmed", !.metadata = [order_ref |-> ""], !.updatedAt = t]

\* What the handler writes on a completion event: the document it found,
\* with status confirmed and updatedAt refreshed.
MarkConfirmed(orderDoc, t) == [orderDoc EXCEPT !.status = "confirmed", !.updatedAt = t]

\* A handler that took the completion branch for an event of any type.
isCompletionAny(event) == TRUE

\* The test of the event type: event.type === 'checkout.session.completed'.
isCompletion(event) == event.type = Completed

\* handleStripeWebhook up to its first awaited call, on the request req the
\* middlewares hand over: constructEvent, 400 when it throws; then the test
\* of the event type and of client_reference_id.
handleStripeWebhook_verify(via, t, req) ==
    LET v == constructEvent(req.body, t.sig, WebhookSecret)
        r0 == [Idle EXCEPT !.op = "webhook", !.via = via,
                           !.preParsed = (via = "app" /\ appParsers(Incoming(t)).parsed),
                           !.rawBody = (req.body = BufferBody(t.bytes)),
                           !.sigMatches = (t.sig = Sign(WebhookSecret, t.bytes)),
                           !.otherType = (t.sig = Sign(WebhookSecret, t.bytes)
                                          /\ JsonParse(t.bytes).type # Completed)]
    IN  /\ CanStart
        /\ nreq' = nreq + 1
        /\ prev' = Summary(cur)
        /\ cur' = IF ~v.ok THEN Respond(r0, 400, "badSignature")
                  ELSE IF isCompletion(v.event) /\ v.event.client_reference_id # 0
                  THEN [r0 EXCEPT !.pc = "query", !.verified = TRUE,
                                  !.ref = v.event.client_reference_id]
                  ELSE Respond([r0 EXCEPT !.verified = TRUE], 200, "ignored")
        /\ UNCHANGED <<store, gateway, now, blacklistedTokens, beside>>

\* A callback as it arrives: its content type, body bytes and signature header.
Transport(ct, b, sig) == [bytes |-> b, contentType |-> ct, sig |-> sig]

\* POST /api/users/webhook as server.js serves it: the application's body
\* parsers, then the router's raw parser, then the handler.
WebhookAtApp ==
    \E ct \in ContentTypes, b \in Payloads :
      \E sig \in SigHeaders(b) :
        LET t == Transport(ct, b, sig)
        IN  handleStripeWebhook_verify("app", t, appChain(Incoming(t)))

\* POST /webhook on the users router alone: the raw parser, then the handler.
WebhookAtRouter ==
    \E ct \in ContentTypes, b \in Payloads :
      \E sig \in SigHeaders(b) :
        LET t == Transport(ct, b, sig)
        IN  handleStripeWebhook_verify("router", t, routerChain(Incoming(t)))

\* The provider delivers the completion event of a session it created: the
\* event carries the session's client_reference_id and the provider's
\* signature, and reaches the handler through the router's raw parser.
completionDelivered ==
    \E s \in gateway :
      LET b == <<Completed, s.client_reference_id>>
          t == Transport("application/json", b, Sign(WebhookSecret, b))
      IN  handleStripeWebhook_verify("router", t, routerChain(Incoming(t)))

\* A handler that would create the order an event names when none is stored.
OrderNotFoundUpsert(S, orderId, t) ==
    S \cup {[toDocument(Order(OrderData("u1", <<ItemA, ItemB>>, GoodAddress, 4999, "a@shop.io", [order_ref |-> "ORD-1"]), orderId, t))
              EXCEPT !.status = "confirmed"]}

\* The branch taken when the query returns no order: console.error('Order
\* not found'), and the store is left as it is.
OrderNotFound(S, orderId, t) == S

\* The status the webhook answers with after the completion branch, whether
\* the branch ended normally or in its catch: res.json({ received: true }).
Acknowledged == 200

\* The cross-partition query for the order named by the event; an error of
\* the store is caught and logged, and so is an empty result; either way the
\* event is acknowledged.
handleStripeWebhook_query ==
    /\ cur.op = "webhook" /\ cur.pc = "query"
    /\ \E storeOk \in BOOLEAN :
         IF ~storeOk
         THEN cur' = Respond(cur, Acknowledged, "storeError") /\ store' = store
         ELSE IF QueryById(store, cur.ref) = {}
         THEN /\ cur' = Respond([cur EXCEPT !.reads = @ + 1], Acknowledged, "notFound")
              /\ store' = OrderNotFound(store, cur.ref, now)
         ELSE /\ \E orderDoc \in QueryById(store, cur.ref) :
                   cur' = [cur EXCEPT !.pc = "replace", !.reads = @ + 1, !.order = orderDoc]
              /\ store' = store
    /\ UNCHANGED <<gateway, now, prev, nreq, blacklistedTokens, beside>>

\* The replace of the found document, marked confirmed, in its owner's
\* partition; an error is caught and logged; the event is acknowledged.
handleStripeWebhook_replace ==
    /\ cur.op = "webhook" /\ cur.pc = "replace"
    /\ \E storeOk \in BOOLEAN :
         IF storeOk /\ CanReplace(store, cur.ref, cur.order.userId)
         THEN /\ store' = Replace(store, cur.ref, cur.order.userId,
                                  MarkConfirmed(cur.order, now))
              /\ cur' = Respond([cur EXCEPT !.writes = @ + 1, !.applied = TRUE],
                                Acknowledged, "confirmed")
         ELSE /\ store' = store
              /\ cur' = Respond(cur, Acknowledged, "storeError")
    /\ UNCHANGED <<gateway, now, prev, nreq, blacklistedTokens, beside>>

\* ------------------------------------------------ the admin router's guards
\* process.env.JWT_SECRET, and a key that is not it.
JwtSecret == "jwt_secret"
OtherKey == "jwt_forged"

\* A bearer token: whose it is, the key it was signed with, whether it has
\* expired.  NoToken is a request without an Authorization header.
Token(sub, key, expired) == [sub |-> sub, key |-> key, expired |-> expired]
NoToken == Token("", "", FALSE)

\* The users container: two customers, an administrator, an administrator
\* whose account was disabled.  NoUser is what findById returns for an id
\* that no account has.
NoUser == [present |-> FALSE, role |-> "", isActive |-> FALSE]
Account(role, isActive) == [present |-> TRUE, role |-> role, isActive |-> isActive]
findById(id) ==
    CASE id \in Users -> Account("customer", TRUE)
      [] id = "root" -> Account("admin", TRUE)
      [] id = "former" -> Account("admin", FALSE)
      [] OTHER -> NoUser

\* The administrator's token, and what else the admin router is sent: no
\* token, the administrator's token forged or expired, the token of the
\* disabled administrator, of a customer, of a deleted account.
AdminToken == Token("root", JwtSecret, FALSE)
AdminTokens ==
    {NoToken, AdminToken, Token("root", OtherKey, FALSE), Token("root", JwtSecret, TRUE),
     Token("former", JwtSecret, FALSE), Token("u1", JwtSecret, FALSE),
     Token("gone", JwtSecret, FALSE)}
\* The tokens presented at logout.
LogoutTokens == {AdminToken}

\* A blacklist that is never looked at.
isTokenBlacklistedNever(B, token) == FALSE

\* tokenService.isTokenBlacklisted(token) and blacklistToken(token).
isTokenBlacklisted(B, token) == token \in B
blacklistToken(B, token) == B \cup {token}

\* verifyToken(token): jwt.verify under JWT_SECRET; throws on a bad
\* signature or an expired token.
verifyToken(token) ==
    [userId |-> token.sub, ok |-> token.key = JwtSecret /\ ~token.expired]

\* What a guard hands on: code 0 is next(), with req.user set; otherwise the
\* status and the error of the response it sent.
Pass(user) == [code |-> 0, user |-> user, error |-> ""]
Deny(code, error) == [code |-> code, user |-> NoUser, error |-> error]

\* authenticateToken: 401 without a token, for a logged-out token, for a
\* token that does not verify, for an unknown or a disabled user.
authenticateToken(token, B) ==
    IF token = NoToken THEN Deny(401, "Access token required")
    ELSE IF isTokenBlacklisted(B, token) THEN Deny(401, "Token invalidated")
    ELSE IF ~verifyToken(token).ok THEN Deny(401, "Authentication failed")
    ELSE IF ~findById(verifyToken(token).userId).present THEN Deny(401, "Invalid token")
    ELSE IF ~findById(verifyToken(token).userId).isActive THEN Deny(401, "Account disabled")
    ELSE Pass(findById(verifyToken(token).userId))

\* A role guard that let every authenticated user through.
authorizeRoleAny(roles, user) == Pass(user)

\* authorizeRole(...roles): 401 without req.user, 403 when the user's role
\* is not one of roles.
authorizeRole(roles, user) ==
    IF ~user.present THEN Deny(401, "Authentication required")
    ELSE IF user.role \notin roles THEN Deny(403, "Access denied")
    ELSE Pass(user)

\* The two guards installed on the admin router ahead of every route.
adminGuards(token, B) ==
    LET a == authenticateToken(token, B)
    IN  IF a.code # 0 THEN a ELSE authorizeRole({"admin"}, a.user)

\* Whether a token is a valid one, not logged out, of an existing active
\* user with role admin.
Entitled(token, B) ==
    /\ token # NoToken /\ token \notin B
    /\ token.key = JwtSecret /\ ~token.expired
    /\ findById(token.sub) = Account("admin", TRUE)

\* A request that a guard of the admin router answered: no route handler ran.
Denied(token, B) ==
    Respond([Idle EXCEPT !.op = "admin", !.entitled = Entitled(token, B), !.token = token],
            adminGuards(token, B).code, adminGuards(token, B).error)

\* POST /logout: behind authenticateToken, the token is put on the blacklist.
logout ==
    /\ CanStart
    /\ nreq' = nreq + 1
    /\ prev' = Summary(cur)
    /\ \E token \in LogoutTokens :
         LET a == authenticateToken(token, blacklistedTokens)
         IN  IF a.code # 0
             THEN /\ cur' = Respond([Idle EXCEPT !.op = "logout", !.token = token], a.code, a.error)
                  /\ blacklistedTokens' = blacklistedTokens
             ELSE /\ cur' = Respond([Idle EXCEPT !.op = "logout", !.token = token], 200, "loggedOut")
                  /\ blacklistedTokens' = blacklistToken(blacklistedTokens, token)
    /\ UNCHANGED <<store, gateway, now, beside>>

\* GET /orders of the admin router: one query over every partition.
getAllOrders ==
    /\ CanStart
    /\ nreq' = nreq + 1
    /\ prev' = Summary(cur)
    /\ \E token \in AdminTokens :
         IF adminGuards(token, blacklistedTokens).code # 0
         THEN cur' = Denied(token, blacklistedTokens)
         ELSE LET r0 == [Idle EXCEPT !.op = "adminList",
                                     !.entitled = Entitled(token, blacklistedTokens), !.token = token]
              IN  \E storeOk \in BOOLEAN :
                    cur' = IF storeOk THEN Respond([r0 EXCEPT !.reads = 1], 200, "listed")
                           ELSE Respond(r0, 500, "storeError")
    /\ UNCHANGED <<store, gateway, now, blacklistedTokens, beside>>

\* What GET /orders/:id of the admin router answers with: 404 when the
\* cross-partition query finds nothing, else the first document found.
adminGetOrderById(S, orderId) ==
    IF QueryById(S, orderId) = {} THEN {[order |-> NoDoc, code |-> 404]}
    ELSE {[order |-> fromDocument(d), code |-> 200] : d \in QueryById(S, orderId)}

\* GET /orders/:id of the admin router.
getOrderById_admin ==
    /\ CanStart
    /\ nreq' = nreq + 1
    /\ prev' = Summary(cur)
    /\ \E token \in AdminTokens :
         IF adminGuards(token, blacklistedTokens).code # 0
         THEN cur' = Denied(token, blacklistedTokens)
         ELSE LET r0 == [Idle EXCEPT !.op = "adminGet",
                                     !.entitled = Entitled(token, blacklistedTokens), !.token = token]
              IN  \E orderId \in RefIds \ {0}, storeOk \in BOOLEAN :
                    IF ~storeOk THEN cur' = Respond(r0, 500, "storeError")
                    ELSE \E a \in adminGetOrderById(store, orderId) :
                           cur' = Respond([r0 EXCEPT !.reads = 1], a.code,
                                          IF a.code = 200 THEN "found" ELSE "notFound")
    /\ UNCHANGED <<store, gateway, now, blacklistedTokens, beside>>

\* ------------------------------------ the administrative status update
\* An update that refreshed updatedAt and kept the status it found.
WithStatusKept(orderDoc, status, t) == [orderDoc EXCEPT !.updatedAt = t]

\* What updateOrderStatus writes: the document it found, with the new
\* status and updatedAt refreshed.
WithStatus(orderDoc, status, t) == [orderDoc EXCEPT !.status = status, !.updatedAt = t]

\* PATCH /orders/:id/status up to the end of its query: 400 for a status
\* outside validStatuses, then the cross-partition query, 404 when empty.
updateOrderStatus_query ==
    /\ CanStart
    /\ nreq' = nreq + 1
    /\ prev' = Summary(cur)
    /\ \E token \in AdminTokens :
         IF adminGuards(token, blacklistedTokens).code # 0
         THEN cur' = Denied(token, blacklistedTokens)
         ELSE \E orderId \in RefIds \ {0}, status \in StatusInputs :
           LET r0 == [Idle EXCEPT !.op = "adminUpdate", !.ref = orderId, !.newStatus = status,
                                  !.entitled = Entitled(token, blacklistedTokens), !.token = token,
                                  !.violated = IF status \in LifecycleStatuses THEN {} ELSE {"status"}]
           IN  IF status \notin validStatuses
               THEN cur' = Respond([r0 EXCEPT !.named = {"status"}], 400, "rejected")
               ELSE \E storeOk \in BOOLEAN :
                      IF ~storeOk
                      THEN cur' = Respond(r0, 500, "storeError")
                      ELSE IF QueryById(store, orderId) = {}
                      THEN cur' = Respond([r0 EXCEPT !.reads = 1], 404, "notFound")
                      ELSE \E orderDoc \in QueryById(store, orderId) :
                             cur' = [r0 EXCEPT !.pc = "replace", !.reads = 1, !.order = orderDoc]
    /\ UNCHANGED <<store, gateway, now, blacklistedTokens, beside>>

\* The replace of the found document with the new status; an error goes to
\* the error handler (500).
updateOrderStatus_replace ==
    /\ cur.op = "adminUpdate" /\ cur.pc = "replace"
    /\ \E storeOk \in BOOLEAN :
         IF storeOk /\ CanReplace(store, cur.ref, cur.order.userId)
         THEN /\ store' = Replace(store, cur.ref, cur.order.userId,
                                  WithStatus(cur.order, cur.newStatus, now))
              /\ cur' = Respond([cur EXCEPT !.writes = @ + 1, !.applied = TRUE],
                                200, "updated")
         ELSE /\ store' = store
              /\ cur' = Respond(cur, 500, "storeError")
    /\ UNCHANGED <<gateway, now, prev, nreq, blacklistedTokens, beside>>

\* ------------------------------------------------------------ listings
\* req.query of the listings that are read page by page.
PageQueries ==
    {ListQuery(st, "", p, l) : st \in {"", "pending"}, p \in 1..(MaxOrders + 1), l \in 1..2}

\* GET /orders of the users router: the caller's orders, one page of them;
\* a failure of the query is answered 500.  A listing changes nothing, so
\* one listing is read from each store.
getOrders_page ==
    /\ cur.pc = "idle"
    /\ \E userId \in Users, q \in PageQueries, storeOk \in BOOLEAN :
         LET r0 == [Idle EXCEPT !.op = "list", !.userId = userId, !.query = q]
         IN  IF storeOk
             THEN \E r \in getOrders(store, userId, q) :
                    cur' = Respond([r0 EXCEPT !.reads = 1, !.listed = r.orders], r.code, "listed")
             ELSE cur' = Respond(r0, 500, "storeError")
    /\ UNCHANGED <<store, gateway, now, prev, nreq, blacklistedTokens, beside>>

\* GET /orders of the admin router, one page of every owner's orders.
getAllOrders_page ==
    /\ cur.pc = "idle"
    /\ \E token \in {NoToken, AdminToken} :
         IF adminGuards(token, blacklistedTokens).code # 0
         THEN cur' = Denied(token, blacklistedTokens)
         ELSE \E q \in PageQueries, storeOk \in BOOLEAN :
                LET r0 == [Idle EXCEPT !.op = "adminList", !.query = q,
                                       !.entitled = Entitled(token, blacklistedTokens), !.token = token]
                IN  IF storeOk
                    THEN \E r \in listAllOrders(store, q) :
                           cur' = Respond([r0 EXCEPT !.reads = 1, !.listed = r.orders],
                                          r.code, "listed")
                    ELSE cur' = Respond(r0, 500, "storeError")
    /\ UNCHANGED <<store, gateway, now, prev, nreq, blacklistedTokens, beside>>

\* ---------------------------------------------------- e-mail verification
\* The addresses of the registered users and the codes generateOTP() draws.
OtpEmails == {"a@shop.io"}
OtpCodes == {"123456", "654321"}
\* An OTP expires 10 minutes after it was stored; the clock counts minutes.
OtpLifetime == 10

\* The two requests in flight change places: the handler that was running
\* waits at its await and the one that was waiting runs on.
Switch ==
    /\ cur.pc \notin {"idle", "done"} \/ other.pc \notin {"idle", "done"}
    /\ cur' = other
    /\ other' = cur
    /\ UNCHANGED <<store, gateway, now, prev, nreq, blacklistedTokens, verification>>

\* The id storeOTP gives a new document: one no document had before.
newOtpId(uses) == Cardinality(DOMAIN uses) + 1

\* otpService.storeOTP: one document with the code and its expiry.
storeOTP(C, id, email, otp, t) ==
    C \cup {[id |-> id, createdAt |-> t, email |-> email, otp |-> otp,
              expiresAt |-> t + OtpLifetime]}

\* POST send-otp: the user is looked up, a user already verified is answered
\* 400, else a code is drawn, stored and mailed.
sendOTP ==
    /\ CanStart
    /\ nreq' = nreq + 1
    /\ prev' = Summary(cur)
    /\ \E email \in OtpEmails, otp \in OtpCodes, storeOk \in BOOLEAN, mailOk \in BOOLEAN :
         LET r0 == [Idle EXCEPT !.op = "sendOTP", !.email = email]
         IN  IF email \in emailVerified
             THEN /\ cur' = Respond(r0, 400, "Email is already verified")
                  /\ UNCHANGED <<otpCodes, otpUses>>
             ELSE IF ~storeOk
             THEN /\ cur' = Respond(r0, 500, "storeError")
                  /\ UNCHANGED <<otpCodes, otpUses>>
             ELSE /\ otpCodes' = storeOTP(otpCodes, newOtpId(otpUses), email, otp, now)
                  /\ otpUses' = [id \in DOMAIN otpUses \cup {newOtpId(otpUses)} |->
                                   IF id \in DOMAIN otpUses THEN otpUses[id] ELSE 0]
                  /\ cur' = IF mailOk THEN Respond([r0 EXCEPT !.writes = 1], 200, "sent")
                            ELSE Respond([r0 EXCEPT !.writes = 1], 500, "mailError")
    /\ UNCHANGED <<store, gateway, now, blacklistedTokens, other, emailVerified>>

\* The documents verifyOTP's query selects: this address, this code, not
\* expired.
MatchingOtps(C, email, otp, t) ==
    {d \in C : d.email = email /\ d.otp = otp /\ d.expiresAt > t}

\* POST verify-otp up to the query of otpService.verifyOTP: no document is
\* answered 400, else resources[0], the newest, is the one to delete.
verifyOTP_query ==
    /\ CanStart
    /\ nreq' = nreq + 1
    /\ prev' = Summary(cur)
    /\ \E email \in OtpEmails, otp \in OtpCodes, storeOk \in BOOLEAN :
         LET r0 == [Idle EXCEPT !.op = "verifyOTP", !.email = email, !.otp = otp]
             resources == MatchingOtps(otpCodes, email, otp, now)
         IN  IF ~storeOk
             THEN cur' = Respond(r0, 500, "storeError")
             ELSE IF resources = {}
             THEN cur' = Respond([r0 EXCEPT !.reads = 1], 400, "Invalid or expired OTP")
             ELSE \E d \in {x \in resources : \A y \in resources : x.createdAt >= y.createdAt} :
                    cur' = [r0 EXCEPT !.pc = "delete", !.reads = 1, !.otpRecord = d.id]
    /\ UNCHANGED <<store, gateway, now, blacklistedTokens, other, verification>>

\* The delete of the document found, in its own try: a failure, and a
\* document that is gone already, is logged and the code counts as valid.
verifyOTP_delete ==
    /\ cur.pc = "delete"
    /\ \E storeOk \in BOOLEAN :
         otpCodes' = IF storeOk THEN {d \in otpCodes : d.id # cur.otpRecord} ELSE otpCodes
    /\ otpUses' = [otpUses EXCEPT ![cur.otpRecord] = @ + 1]
    /\ cur' = [cur EXCEPT !.pc = "markVerified", !.verified = TRUE, !.writes = @ + 1]
    /\ UNCHANGED <<store, gateway, now, prev, nreq, blacklistedTokens, other, emailVerified>>

\* The controller marks the user verified and answers 200; a failure of the
\* users container is answered 500.
verifyOTP_markVerified ==
    /\ cur.pc = "markVerified"
    /\ \E storeOk \in BOOLEAN :
         IF storeOk
         THEN /\ emailVerified' = emailVerified \cup {cur.email}
              /\ cur' = Respond([cur EXCEPT !.writes = @ + 1], 200, "Email verified successfully!")
         ELSE /\ emailVerified' = emailVerified
              /\ cur' = Respond(cur, 500, "storeError")
    /\ UNCHANGED <<store, gateway, now, prev, nreq, blacklistedTokens, other, otpCodes, otpUses>>

\* Time passes.  An instant that no stored timestamp carries cannot be told
\* from the next one, so the clock moves on only from an instant that is in
\* the store.
Tick ==
    /\ now < MaxTime
    /\ \E d \in store : d.updatedAt = now
    /\ now' = now + 1
    /\ UNCHANGED <<store, gateway, cur, prev, nreq, blacklistedTokens, beside>>

Init ==
    /\ store = {}
    /\ gateway = {}
    /\ now = 1
    /\ cur = Idle
    /\ prev = Summary(Idle)
    /\ nreq = 0
    /\ blacklistedTokens = {}
    /\ other = Idle
    /\ otpCodes = {}
    /\ emailVerified = {}
    /\ otpUses = [id \in {} |-> 0]

Next ==
    \/ createCheckoutSession_createOrder
    \/ createCheckoutSession_gateway
    \/ createCheckoutSession_replace
    \/ WebhookAtApp
    \/ WebhookAtRouter
    \/ handleStripeWebhook_query
    \/ handleStripeWebhook_replace
    \/ getAllOrders
    \/ getOrderById_admin
    \/ updateOrderStatus_query
    \/ updateOrderStatus_replace
    \/ logout
    \/ Tick

Spec == Init /\ [][Next]_vars

\* Checkouts alone, over every number a body may carry.
NextCheckout ==
    \/ createCheckoutSession_anyNumbers
    \/ createCheckoutSession_gateway
    \/ createCheckoutSession_replace
    \/ Tick

SpecCheckout == Init /\ [][NextCheckout]_vars

\* Checkouts alone, with the numbers a storefront sends: the stores that
\* the owners' fetch and listing are read from.
NextOrders ==
    \/ createCheckoutSession_createOrder
    \/ createCheckoutSession_gateway
    \/ createCheckoutSession_replace
    \/ Tick

SpecOrders == Init /\ [][NextOrders]_vars

\* Checkouts alone, with ids that may repeat.
NextIds ==
    \/ createCheckoutSession_anyId
    \/ createCheckoutSession_gateway
    \/ createCheckoutSession_replace
    \/ Tick

SpecIds == Init /\ [][NextIds]_vars

\* Two requests at a time on the orders: checkouts, the provider's
\* deliveries and admin updates, each running from await to await, all
\* within one tick of the clock.
NextRaces ==
    \/ createCheckoutSession_createOrder
    \/ createCheckoutSession_gateway
    \/ createCheckoutSession_replace
    \/ completionDelivered
    \/ handleStripeWebhook_query
    \/ handleStripeWebhook_replace
    \/ updateOrderStatus_query
    \/ updateOrderStatus_replace
    \/ Switch

SpecRaces == Init /\ [][NextRaces]_vars

\* E-mail verification, two requests at a time.
NextOtp ==
    \/ sendOTP
    \/ verifyOTP_query
    \/ verifyOTP_delete
    \/ verifyOTP_markVerified
    \/ Switch

SpecOtp == Init /\ [][NextOtp]_vars

\* The listings, read from any store of at most MaxOrders orders of the two
\* owners, pending or confirmed, created at one instant or at two.
StoredOrder(id, userId, status, t) ==
    [toDocument(Order(OrderData(userId, <<ItemA, ItemB>>, GoodAddress, 4999,
                                "a@shop.io", [order_ref |-> "ORD-1"]), id, t))
       EXCEPT !.status = status]
Stores ==
    UNION {{{StoredOrder(id, f[id][1], f[id][2], f[id][3]) : id \in 1..n}
            : f \in [1..n -> Users \X {"pending", "confirmed"} \X {MaxTime - 1, MaxTime}]}
           : n \in 0..MaxOrders}
InitListing ==
    /\ store \in Stores
    /\ gateway = {}
    /\ now = MaxTime
    /\ cur = Idle
    /\ prev = Summary(Idle)
    /\ nreq = 0
    /\ blacklistedTokens = {}
    /\ other = Idle
    /\ otpCodes = {}
    /\ emailVerified = {}
    /\ otpUses = [id \in {} |-> 0]
NextListing ==
    \/ getOrders_page
    \/ getAllOrders_page
SpecListing == InitListing /\ [][NextListing]_vars
\* ================================================================ claims
\* An order document without its updatedAt timestamp.
Core(d) == [d EXCEPT !.updatedAt = 0]

\* The step in which the callback handler's replace succeeds.
ConfirmStep ==
    /\ cur.op = "webhook" /\ cur.pc = "replace"
    /\ cur'.outcome = "confirmed"

\* C1: applying the same verified completion event again, right after it was
\* applied to the order, leaves the order as the first application left it
\* (updatedAt apart): its status is confirmed, never a third status.
C1_Idempotent ==
    [][(ConfirmStep /\ prev = cur.ref) =>
          /\ \A d \in ItemAt(store, cur.ref, cur.order.userId) : d.status = "confirmed"
          /\ \A e \in ItemAt(store', cur.ref, cur.order.userId) : e.status = "confirmed"
          /\ {Core(e) : e \in ItemAt(store', cur.ref, cur.order.userId)}
               = {Core(d) : d \in ItemAt(store, cur.ref, cur.order.userId)}
          /\ Cardinality(ItemAt(store', cur.ref, cur.order.userId)) = 1]_vars

\* C1 witness: the event was applied twice in a row to the same order.
C1_Witness == cur.op = "webhook" /\ cur.outcome = "confirmed" /\ prev = cur.ref

\* C2: a verified completion event for an order that is already confirmed,
\* processing, out_for_delivery, delivered or cancelled leaves the stored
\* document unchanged.
C2_NoOpWhenAdvanced ==
    [][(cur.op = "webhook" /\ cur.pc = "replace" /\ cur.order.status # "pending")
          => store' = store]_vars

\* C3: a verified completion event for a stored pending order, the store
\* calls succeeding, makes the order confirmed, and the owner's fetch of it
\* then returns status confirmed.
C3_PendingToConfirmed ==
    [][(ConfirmStep /\ cur.order.status = "pending") =>
          LET f == getOrderById(store', cur.order.userId, cur.ref)
          IN  f.code = 200 /\ f.order.status = "confirmed" /\ f.order.id = cur.ref]_vars

\* C3 witness: the handler confirmed an order while the order before it had
\* not confirmed that one.
C3_Witness ==
    /\ cur.op = "webhook" /\ cur.outcome = "confirmed" /\ prev # cur.ref
    /\ \E d \in store : d.id = cur.ref /\ d.status = "confirmed"

\* C4: after a checkout that answered 200, the order fetched by owner and id
\* carries the session id the gateway returned for it, and is still pending.
C4_SessionRoundTrip ==
    (cur.op = "checkout" /\ cur.pc = "done" /\ cur.code = 200) =>
        LET f == getOrderById(store, cur.userId, cur.ref)
        IN  /\ f.code = 200
            /\ f.order.stripeSessionId = cur.session
            /\ f.order.status = "pending"
            /\ [id |-> cur.session, client_reference_id |-> cur.ref] \in gateway

C4_Witness == cur.op = "checkout" /\ cur.pc = "done" /\ cur.code = 200

\* C5: when createOrder returns (the input passed validation and the store
\* took the document), the store has gained exactly one document: the
\* returned order, pending, without a session id, with the input's items.
C5_CreateOrder ==
    [][(cur'.op = "checkout" /\ cur'.pc = "gateway" /\ cur.pc # "gateway") =>
          /\ cur'.order \notin store
          /\ store' = store \cup {cur'.order}
          /\ cur'.order.status = "pending"
          /\ cur'.order.stripeSessionId = 0
          /\ cur'.order.items = cur'.items /\ cur'.items # <<>>
          /\ cur'.order.userId = cur'.userId
          /\ cur'.writes = 1]_vars

C5_Witness == cur.op = "checkout" /\ cur.pc = "gateway" /\ Len(cur.order.items) = 2

\* The position of a status in pending < confirmed < processing <
\* out_for_delivery < delivered; cancelled stands apart.
Rank(st) ==
    CASE st = "pending" -> 1 [] st = "confirmed" -> 2 [] st = "processing" -> 3
      [] st = "out_for_delivery" -> 4 [] st = "delivered" -> 5 [] OTHER -> 0

Forward(a, b) ==
    \/ a = b
    \/ a \notin {"delivered", "cancelled"} /\ b = "cancelled"
    \/ a # "cancelled" /\ b # "cancelled" /\ Rank(a) < Rank(b)

\* C6: no step moves an order's status backwards in the order of the
\* statuses, or away from delivered or cancelled.
C6_ForwardOnly ==
    [][\A d \in store : \A e \in store' :
          (d.id = e.id /\ d.userId = e.userId) => Forward(d.status, e.status)]_vars

\* C7: a callback whose signature is not the provider's signature of the
\* bytes sent is answered 400 without any store call, and a callback is at
\* or past the store calls only when its event was verified.
C7_SignatureGate ==
    cur.op = "webhook" =>
        /\ ~cur.sigMatches =>
              cur.pc = "done" /\ cur.code = 400 /\ cur.reads = 0 /\ cur.writes = 0
        /\ (cur.pc \in {"query", "replace"} \/ cur.reads > 0 \/ cur.writes > 0)
              => (cur.verified /\ cur.sigMatches /\ cur.rawBody)

\* C7 witness: a raw body reached the handler with a signature that is not
\* the one of its bytes, and was refused.
C7_Witness == cur.op = "webhook" /\ cur.rawBody /\ ~cur.sigMatches /\ cur.code = 400

\* C8: no body parser has read the body of a callback before the users
\* router's raw parser and the handler get it.
C8_RawBodyFirst == (cur.op = "webhook" /\ cur.via = "app") => ~cur.preParsed

\* C9: when the gateway call fails, the store is as it was, and holds the
\* order of this checkout as createOrder returned it: pending, no session id.
C9_GatewayFailureKeepsOrder ==
    [][(cur.op = "checkout" /\ cur.pc = "gateway" /\ cur'.outcome = "gatewayError") =>
          /\ store' = store
          /\ ItemAt(store', cur.ref, cur.userId) = {toDocument(cur.order)}
          /\ cur.order.status = "pending" /\ cur.order.stripeSessionId = 0]_vars

C9_Witness ==
    /\ cur.op = "checkout" /\ cur.outcome = "gatewayError"
    /\ \E d \in store : d.id = cur.ref /\ d.status = "pending" /\ d.stripeSessionId = 0

\* C10: a checkout that retries a failed one works on the order of the
\* failed one: it creates no further order, and the session it obtains is
\* attached to that order.
C10_RetrySameOrder ==
    (cur.op = "checkout" /\ cur.retryOf # 0 /\ cur.pc \in {"gateway", "attach"})
        => cur.ref = cur.retryOf

\* C11: a verified completion event whose correlation id matches no stored
\* order is acknowledged with 200 by the step that finds no order, and that
\* step neither creates an order nor changes a stored one.
C11_UnknownOrder ==
    [][(cur.op = "webhook" /\ cur.pc = "query" /\ cur.verified
        /\ QueryById(store, cur.ref) = {} /\ cur' # cur)
       => (cur'.pc = "done" /\ cur'.code = 200 /\ cur'.writes = 0 /\ store' = store)]_vars
C11_Witness ==
    /\ cur.op = "webhook" /\ cur.pc = "done" /\ cur.verified /\ cur.outcome = "notFound"
    /\ cur.code = 200 /\ store # {} /\ QueryById(store, cur.ref) = {}

\* C12: a callback carrying the provider's signature of an event of a type
\* other than the completion of a checkout session, once verified, is
\* answered at once with 200 and makes no call to the store.
C12_OtherEventTypes ==
    (cur.op = "webhook" /\ cur.verified /\ cur.otherType)
    => (cur.pc = "done" /\ cur.code = 200 /\ cur.reads = 0 /\ cur.writes = 0)
C12_Witness ==
    /\ cur.op = "webhook" /\ cur.verified /\ cur.otherType /\ cur.pc = "done"
    /\ cur.code = 200 /\ store # {}

\* C13: a completion event during which the store failed, at the lookup or
\* at the replace, is answered with an error status, not acknowledged.
C13_StoreErrorReported ==
    (cur.op = "webhook" /\ cur.pc = "done" /\ cur.outcome = "storeError")
    => cur.code >= 500

\* C14: a checkout whose input breaks constraints of an order is answered
\* by naming every field that breaks one, and writes nothing.
C14_ValidationExhaustive ==
    (cur.op = "checkout" /\ cur.pc = "done" /\ cur.violated # {})
    => (cur.named = cur.violated /\ cur.writes = 0)

\* C15: a checkout rejected for its input is answered with a client-error
\* status, a checkout that failed at the gateway or the store with a
\* server-error status, so that the two are never answered alike.
C15_FailureClasses ==
    (cur.op = "checkout" /\ cur.pc = "done")
    => /\ (cur.violated # {} => cur.code \in 400..499)
       /\ (cur.outcome \in {"gatewayError", "storeError"} => cur.code \in 500..599)

\* C16: every stored order has at least one item, each with a positive
\* quantity and a non-negative price, a non-negative total, an address with
\* street, city and country, and a customer email.
WellFormedOrder(d) ==
    /\ Len(d.items) > 0
    /\ \A i \in 1..Len(d.items) : d.items[i].quantity > 0 /\ d.items[i].price >= 0
    /\ d.total >= 0
    /\ d.address.street # "" /\ d.address.city # "" /\ d.address.country # ""
    /\ d.customerEmail # ""
C16_StoredOrdersWellFormed == \A d \in store : WellFormedOrder(d)

C18_UpdateVisible ==
    [][(cur.op = "adminUpdate" /\ cur.pc = "replace" /\ cur'.outcome = "updated")
       => /\ ItemAt(store', cur.ref, cur.order.userId) # {}
          /\ \A a \in adminGetOrderById(store', cur.ref) :
                a.code = 200 /\ a.order.status = cur.newStatus
          /\ getOrderById(store', cur.order.userId, cur.ref).code = 200
          /\ getOrderById(store', cur.order.userId, cur.ref).order.status = cur.newStatus]_vars
C18_Witness ==
    /\ cur.op = "adminUpdate" /\ cur.pc = "done" /\ cur.outcome = "updated"
    /\ \E d \in store : d.id = cur.ref /\ d.status = "processing"

\* C20: a request to an order route of the admin router reaches its handler
\* only with a valid token, not logged out, of an active administrator; any
\* other request is answered 401 or 403 by the router's guards without a
\* read or a write of the store.
C20_AdminOnly ==
    (cur.op \in {"admin", "adminList", "adminGet", "adminUpdate"})
    => IF cur.entitled THEN cur.op # "admin"
       ELSE /\ cur.op = "admin" /\ cur.pc = "done" /\ cur.code \in {401, 403}
            /\ cur.reads = 0 /\ cur.writes = 0
C20_Witness ==
    /\ cur.op = "admin" /\ cur.code = 401 /\ cur.outcome = "Token invalidated"
    /\ store # {} /\ AdminToken \in blacklistedTokens

\* C19: what an owner's fetch by id and an owner's listing return depends
\* on that owner's orders alone: they return only orders of the caller,
\* the fetch answers 404 for an id that no order of the caller has, and
\* both answer as they would with every other owner's orders taken away.
OwnOrders(u) == {d \in store : d.userId = u}
C19_OwnerIsolation ==
    \A u \in Users :
       /\ \A id \in OrderIds :
            /\ getOrderById(store, u, id) = getOrderById(OwnOrders(u), u, id)
            /\ getOrderById(store, u, id).code = 200
                 => getOrderById(store, u, id).order.userId = u
            /\ (\A d \in OwnOrders(u) : d.id # id) => getOrderById(store, u, id).code = 404
       /\ \A q \in ListQueries :
            /\ getOrders(store, u, q) = getOrders(OwnOrders(u), u, q)
            /\ \A r \in getOrders(store, u, q) :
                 \A i \in 1..Len(r.orders) : r.orders[i].userId = u
C19_Witness ==
    /\ \E d \in store : d.userId = "u2" /\ getOrderById(store, "u1", d.id).code = 404
    /\ \E r \in getOrders(store, "u1", ListQuery("", "ord", 1, 2)) : Len(r.orders) = 2

\* C21: over the N orders a listing matches, taken newest first, page p with
\* limit L returns exactly the orders at positions (p-1)*L+1 .. min(p*L, N)
\* of that sequence, so two different pages of it share no order, and a
\* page past the end or a listing that matches nothing answers 200 with an
\* empty list; for the owner's listing and for the admin's.
Positions(rows, p, l) ==
    LET N == Len(rows)
        last == IF p * l <= N THEN p * l ELSE N
    IN  [i \in 1..(IF last >= (p - 1) * l THEN last - (p - 1) * l ELSE 0)
           |-> fromDocument(rows[(p - 1) * l + i])]
Elements(seq) == {seq[i] : i \in 1..Len(seq)}
Matching ==
    IF cur.op = "list" THEN Selected(store, cur.userId, cur.query)
    ELSE SelectedAll(store, cur.query)
C21_Pagination ==
    (cur.op \in {"list", "adminList"} /\ cur.outcome = "listed")
    => LET D == Matching
           p == cur.query.page
           l == cur.query.limit
       IN  /\ cur.code = 200
           /\ (p - 1) * l >= Cardinality(D) => cur.listed = <<>>
           /\ \E rows \in [1..Cardinality(D) -> D] :
                 /\ Elements(rows) = D
                 /\ \A i \in 1..Len(rows), j \in 1..Len(rows) :
                       i < j => rows[i].createdAt >= rows[j].createdAt
                 /\ cur.listed = Positions(rows, p, l)
                 /\ \A p2 \in 1..(MaxOrders + 1) :
                       p2 # p => Elements(cur.listed) \cap Elements(Positions(rows, p2, l)) = {}
C21_Witness ==
    /\ cur.op = "list" /\ cur.outcome = "listed" /\ cur.query.page = 2 /\ cur.query.limit = 2
    /\ Cardinality(Matching) = 3 /\ Len(cur.listed) = 1
    /\ \E d \in store : d.userId = cur.userId /\ d.status # cur.query.status

\* C22: no two stored orders share an id, whoever their owners are, and a
\* checkout whose new id is already in the store, in any partition, fails
\* and leaves the store as it was.
C22_UniqueIds ==
    /\ \A d \in store, e \in store : d.id = e.id => d = e
    /\ (cur.op = "checkout" /\ cur.pc = "gateway")
         => Cardinality({d \in store : d.id = cur.ref}) = 1

\* C23: a stored OTP lets at most one verifyOTP succeed: once a
\* verification with its address and code has succeeded, a later or a
\* concurrent one with the same address and code is answered as invalid.
C23_SingleUse == \A id \in DOMAIN otpUses : otpUses[id] <= 1

\* C24: once a logout with token t has succeeded, t stays on the blacklist
\* whatever logouts and requests follow, and every later request that
\* presents t on a route behind authenticateToken is answered 401 before
\* its handler reads or writes anything.
C24_LogoutInvalidates ==
    [][/\ blacklistedTokens \subseteq blacklistedTokens'
       /\ (nreq' = nreq + 1 /\ cur'.op \in {"admin", "adminList", "adminGet", "adminUpdate", "logout"}
            /\ cur'.token \in blacklistedTokens)
           => (cur'.pc = "done" /\ cur'.code = 401 /\ cur'.reads = 0 /\ cur'.writes = 0
               /\ store' = store)]_vars
C24_Witness ==
    /\ cur.op = "logout" /\ cur.code = 401 /\ cur.token = AdminToken
    /\ cur.token \in blacklistedTokens /\ nreq = MaxRequests

\* C25: when two deliveries of the completion event of one order are in
\* flight together, their lookups and replaces interleaved in any way and
\* nothing else having touched the order since the lookup, each replace
\* leaves the order confirmed with every field but status and updatedAt as
\* it was; so does the last one.
Payload(d) == [d EXCEPT !.status = "", !.updatedAt = 0]
C25_ConcurrentDeliveries ==
    [][(/\ cur.op = "webhook" /\ cur.pc = "replace" /\ cur'.applied /\ other' = other
        /\ other.op = "webhook" /\ other.verified /\ other.ref = cur.ref
        /\ \A d \in QueryById(store, cur.ref) : Payload(d) = Payload(cur.order))
       => /\ QueryById(store', cur.ref) # {}
          /\ \A d \in QueryById(store, cur.ref), e \in QueryById(store', cur.ref) :
                e.status = "confirmed" /\ Payload(e) = Payload(d)
          /\ \A d \in store : d.id # cur.ref => d \in store']_vars
C25_Witness ==
    /\ cur.op = "webhook" /\ cur.applied /\ cur.pc = "done"
    /\ other.op = "webhook" /\ other.pc = "replace" /\ other.ref = cur.ref
    /\ other.order.status = "pending"
    /\ \E d \in QueryById(store, cur.ref) : d.status = "confirmed" /\ d.stripeSessionId # 0

\* C26: a completion event applied to an order between the creation of its
\* session and the write that attaches the session id is not lost: the
\* attaching write leaves the order confirmed.
C26_NoLostConfirmation ==
    [][(/\ cur.op = "checkout" /\ cur.pc = "attach" /\ other' = other
        /\ other.op = "webhook" /\ other.applied /\ other.ref = cur.ref
        /\ \E d \in QueryById(store, cur.ref) : d.status = "confirmed")
       => \A e \in QueryById(store', cur.ref) : e.status = "confirmed"]_vars

\* C27: an order is created without a session id, and a session id once
\* stored is never changed or taken away by any later step of a checkout,
\* a delivery or an admin update, however their reads and writes interleave.
C27_SessionWriteOnce ==
    [][/\ (nreq' = nreq + 1 /\ cur'.op = "checkout" /\ cur'.pc = "gateway")
           => \A e \in QueryById(store', cur'.ref) : e.stripeSessionId = 0
       /\ \A d \in store :
             d.stripeSessionId # 0
             => \A e \in store' : (e.id = d.id /\ e.userId = d.userId)
                                     => e.stripeSessionId = d.stripeSessionId]_vars

\* C28: the replace of a delivery or of an admin update changes one order:
\* every other order stays as it is, the order itself keeps its id, owner,
\* items, address, total, customer e-mail, metadata and createdAt, and no
\* step of any handler removes an order.
Frame(d) ==
    [id |-> d.id, userId |-> d.userId, items |-> d.items, address |-> d.address,
     total |-> d.total, customerEmail |-> d.customerEmail, metadata |-> d.metadata,
     createdAt |-> d.createdAt]
C29_CheckoutOrdering ==
    [][/\ (nreq' = nreq + 1 /\ cur'.op = "checkout" /\ cur'.pc = "gateway")
           => /\ gateway' = gateway
              /\ \E d \in store' : d.id = cur'.ref /\ d.status = "pending"
       /\ (cur.op = "checkout" /\ cur.pc = "gateway" /\ gateway' # gateway)
           => /\ \E d \in store : d.id = cur.ref /\ d.userId = cur.userId
              /\ \A s \in gateway' \ gateway : s.client_reference_id = cur.ref
       /\ (cur.op = "checkout" /\ cur.pc = "attach" /\ cur'.outcome = "redirect" /\ other' = other)
           => \E e \in store' : e.id = cur.ref /\ e.stripeSessionId = cur.session /\ cur.session # 0
       /\ \A s \in gateway' : \E d \in store' : d.id = s.client_reference_id
       /\ (nreq' = nreq + 1 /\ cur'.op = "webhook" /\ cur'.verified)
           => \E d \in store : d.id = cur'.ref]_vars
C29_Witness ==
    /\ cur.op = "webhook" /\ cur.verified /\ cur.outcome = "confirmed"
    /\ \E d \in store, s \in gateway :
         d.id = cur.ref /\ d.stripeSessionId = s.id /\ s.client_reference_id = d.id

\* C30: a completion event the provider delivers for a stored order is not
\* acknowledged with success while a failed store operation has left that
\* order pending, so that the provider delivers it again until the order
\* is confirmed.
C30_NoAckWhilePending ==
    (cur.op = "webhook" /\ cur.pc = "done" /\ cur.verified /\ cur.outcome = "storeError"
     /\ \E d \in QueryById(store, cur.ref) : d.status = "pending")
    => cur.code \notin 200..299

====
